---- MODULE Spec2Model ----
(***************************************************************************)
(* Response caching layer (src/src/caching.py): CacheConfig, CacheManager  *)
(* (two tiers: a Redis client and an in-memory dict pair) and the `cached` *)
(* decorator.                                                              *)
(***************************************************************************)
EXTENDS Integers, Sequences, FiniteSets, TLC

\* ------------------------------------------------------------------ bounds
MaxClock == 2        \* the clock runs over 0..MaxClock, in ticks
MaxTtl == 1          \* config.ttl_seconds is drawn from 1..MaxTtl
MaxSize == 2         \* config.max_size is drawn from 1..MaxSize
MaxArgs == 2         \* longest keyword mapping given to the key encoder alone
MaxThreads == 2      \* threads calling one manager concurrently

\* ------------------------------------------------------------------ time
\* datetime.utcnow() reads a clock far finer than a second. The clock of the
\* model counts ticks, TicksPerSecond of them to the second, so that entries
\* written within one second of each other can expire at different times.
TicksPerSecond == 2

\* ------------------------------------------------------- Python values
\* A Python value is a tag (its type) and a number naming its content.
None == [t |-> "NoneType", v |-> 0]
PyInt(i) == [t |-> "int", v |-> i]
PyStr(s) == [t |-> "str", v |-> s]
PyTuple(c) == [t |-> "tuple", v |-> c]
PyList(c) == [t |-> "list", v |-> c]
PyObject(o) == [t |-> "object", v |-> o]

\* json.dumps(value, default=str): tuples and lists both become JSON arrays,
\* a value json cannot serialise is replaced by str(value).
json_dumps(value) ==
    CASE value.t = "NoneType" -> [j |-> "null", v |-> 0]
      [] value.t = "int" -> [j |-> "number", v |-> value.v]
      [] value.t = "str" -> [j |-> "string", v |-> value.v]
      [] value.t \in {"tuple", "list"} -> [j |-> "array", v |-> value.v]
      [] OTHER -> [j |-> "string", v |-> value.v]

\* json.loads(text): arrays come back as lists.
json_loads(text) ==
    CASE text.j = "null" -> None
      [] text.j = "number" -> PyInt(text.v)
      [] text.j = "string" -> PyStr(text.v)
      [] text.j = "array" -> PyList(text.v)
      [] OTHER -> [t |-> text.j, v |-> text.v]

\* ---------------------------------------------------------- key encoder
\* A keyword mapping (**kwargs) is a sequence of <<name, value>> pairs in
\* insertion order, with pairwise distinct names.
ArgNames == {"a", "args", "b", "id", "kwargs"}

\* Position of a name in Python's string order.
NameRank(name) ==
    CASE name = "a" -> 1
      [] name = "args" -> 2
      [] name = "b" -> 3
      [] name = "id" -> 4
      [] name = "kwargs" -> 5

Pairs(kwargs) == {kwargs[i] : i \in 1..Len(kwargs)}

RECURSIVE SortedPairs(_)
SortedPairs(S) ==
    IF S = {} THEN <<>>
    ELSE LET m == CHOOSE x \in S : \A y \in S : NameRank(x[1]) <= NameRank(y[1])
         IN <<m>> \o SortedPairs(S \ {m})

\* json.dumps(kwargs, sort_keys=True, default=str): the pairs in name order,
\* each value serialised.
insertion_order(kwargs) ==
    [i \in 1..Len(kwargs) |-> <<kwargs[i][1], json_dumps(kwargs[i][2])>>]
sort_keys(kwargs) ==
    LET s == SortedPairs(Pairs(kwargs))
    IN [i \in 1..Len(s) |-> <<s[i][1], json_dumps(s[i][2])>>]

\* hashlib.md5(key_str.encode()).hexdigest(): a digest that is a function of
\* the hashed string alone and separates the strings of this model.
md5(key_str) == <<"md5", key_str>>

\* CacheManager._generate_key
generate_key(namespace, kwargs) ==
    LET key_str == <<namespace, sort_keys(kwargs)>>
        key_hash == md5(key_str)
    IN [prefix |-> "cache", namespace |-> namespace, digest |-> key_hash]

\* --------------------------------------------------------------- state
VARIABLES
    config,            \* CacheConfig: ttl_seconds, max_size, use_redis
    redis_client,      \* CacheManager.redis_client: "client" or "None"
    in_memory_cache,   \* CacheManager.in_memory_cache: key -> value
    cache_timestamps,  \* CacheManager.cache_timestamps: insertion-ordered
                       \* dict, a sequence of [k, t, n] items
    redis,             \* the Redis server's keyspace: key -> [val, exp]
    clock,             \* the time datetime.utcnow() and the server read,
                       \* in ticks
    last,              \* the manager call made last, with what it returned
    setAt,             \* history: watched key -> time of its latest set, or -1
    w,                 \* the frame of the sync_wrapper call, kept after it returns
    enc,               \* the key encoder run on its own: inputs and output
    latest,            \* history: watched key -> val, the value of its latest
                       \* set (None after a delete); ever, the values ever set;
                       \* dirty, the Redis command of its latest set or delete
                       \* failed; kept, no delete, clear, eviction or expiry
                       \* has taken the key out of the Local Store since
    threads            \* the frames of the threads calling the manager
                       \* concurrently, statement by statement

vars == <<config, redis_client, in_memory_cache, cache_timestamps, redis,
          clock, last, setAt, w, enc, latest, threads>>

NoKey == [prefix |-> "", namespace |-> "", digest |-> <<>>]

Namespaces == {"ns", "fn"}

\* The value callers store, a tuple, and the two values of the runs that
\* tell one set of a key from the next: the string "A" and the tuple.
Values == {PyTuple(1)}
BothValues == {PyStr(1), PyTuple(1)}

\* The values the wrapped function returns: None and the string "A".
Results == {None, PyStr(1)}

\* ---------------------------------------------------- dict operations
DictDel(d, k) == [x \in DOMAIN d \ {k} |-> d[x]]
DictPut(d, k, v) == [x \in DOMAIN d \cup {k} |-> IF x = k THEN v ELSE d[x]]

\* A datetime is a record [t, n]: t is the tick of the reading and n orders
\* the readings made within one tick (two readings of utcnow() are never
\* equal: the later call reads the later time). cache_timestamps is kept as
\* the sequence of its items [k, t, n] in the dict's order.
NoStamp == [t |-> -1, n |-> 0]
Before(a, b) == a.t < b.t \/ (a.t = b.t /\ a.n < b.n)
StampsOf(ts) == {[t |-> ts[i].t, n |-> ts[i].n] : i \in 1..Len(ts)}

\* The place of a reading among the readings S of its tick, and the dict
\* with every n brought back to that place (the order is all that n means).
Rank(s, S) == 1 + Cardinality({x \in S : x.t = s.t /\ x.n < s.n})
Renumber(ts, S) == [i \in 1..Len(ts) |-> [ts[i] EXCEPT !.n = Rank(ts[i], S)]]

TsKeys(ts) == {ts[i].k : i \in 1..Len(ts)}
TsGet(ts, k) == ts[CHOOSE i \in 1..Len(ts) : ts[i].k = k].t
TsDelRaw(ts, k) == SelectSeq(ts, LAMBDA e : e.k # k)
TsPutRaw(ts, k, at) ==
    IF k \in TsKeys(ts)
    THEN [i \in 1..Len(ts) |->
             IF ts[i].k = k THEN [k |-> k, t |-> at.t, n |-> at.n] ELSE ts[i]]
    ELSE Append(ts, [k |-> k, t |-> at.t, n |-> at.n])
TsDel(ts, k) == Renumber(TsDelRaw(ts, k), StampsOf(TsDelRaw(ts, k)))
TsPut(ts, k, at) == Renumber(TsPutRaw(ts, k, at), StampsOf(TsPutRaw(ts, k, at)))

\* min(self.cache_timestamps, key=self.cache_timestamps.get): the key of the
\* earliest timestamp (the first such key in the dict's order, were two equal).
last_key(ts) == ts[Len(ts)].k
newest_key(ts) ==
    ts[CHOOSE i \in 1..Len(ts) :
          \A j \in 1..Len(ts) :
             Before(ts[j], ts[i]) \/ (~Before(ts[i], ts[j]) /\ j >= i)].k
oldest_key(ts) ==
    ts[CHOOSE i \in 1..Len(ts) :
          \A j \in 1..Len(ts) :
             Before(ts[i], ts[j]) \/ (~Before(ts[j], ts[i]) /\ j >= i)].k

\* config.ttl_seconds on the clock's scale.
ttl_ticks == config.ttl_seconds * TicksPerSecond

\* datetime.utcnow() read at tick now by a caller that is alone with the dict
\* ts: that tick, after every reading of it that ts holds.
utcnow(ts, now) ==
    [t |-> now, n |-> 1 + Cardinality({i \in 1..Len(ts) : ts[i].t = now})]

\* setAt after a set of key that wrote its timestamp at tick now.
Watch(key, now) ==
    IF key \in DOMAIN setAt THEN [setAt EXCEPT ![key] = now] ELSE setAt

\* latest after a call that took the keys `dropped` out of in_memory_cache.
Unkeep(dropped) ==
    [k \in DOMAIN latest |->
        IF k \in dropped THEN [latest[k] EXCEPT !.kept = FALSE] ELSE latest[k]]

\* latest after a set of key to value, and after a delete of key, whose Redis
\* command did `remote` and which took `dropped` out of in_memory_cache.
NoteSet(key, value, remote, dropped) ==
    LET h == Unkeep(dropped \ {key})
    IN IF key \in DOMAIN h
       THEN [h EXCEPT ![key] = [val |-> value, ever |-> @.ever \cup {value},
                                dirty |-> remote = "error", kept |-> TRUE]]
       ELSE h
NoteDelete(key, remote, dropped) ==
    LET h == Unkeep(dropped)
    IN IF key \in DOMAIN h
       THEN [h EXCEPT ![key] = [val |-> None, ever |-> @.ever,
                                dirty |-> remote = "error", kept |-> FALSE]]
       ELSE h

\* ------------------------------------------------------- CacheManager
connected_if_configured == config.use_redis
connected == redis_client = "client"

\* What the call's Redis command did: "none" when no client is connected,
\* "error" when the command raised, "ok" otherwise.
RemoteOutcome(ok) == IF ~connected THEN "none" ELSE IF ok THEN "ok" ELSE "error"

\* `except Exception as e: logger.warning(...)` around every Redis command:
\* the error is logged and the call goes on.
reraised(error) == error
caught(error) == "none"

\* The exception a failing Redis command lets out of the call.
remote_err(ok) == IF connected /\ ~ok THEN caught("RedisError") ELSE "none"

\* The server's keyspace at tick now: the keys whose expiry has not come.
redis_at(r, now) == [k \in {x \in DOMAIN r : now < r[x].exp} |-> r[k]]

\* The ticks a call waits for the answer to its Redis command (GET at line
\* 95, SETEX at lines 129-133 and DEL at line 160 block until the server
\* answers or the command raises); no command is sent without a client.
Waits == IF connected THEN 0..(MaxClock - clock) ELSE {0}

\* The Redis server's GET: the stored text, while the key has not expired.
redis_has(key) == key \in DOMAIN redis /\ clock < redis[key].exp

\* get, lines 93-98: the client returned a text for the key (a JSON text is
\* never the empty string, so `if value:` holds for every stored text).
redis_hit(key, ok) == connected /\ ok /\ redis_has(key)

\* get, line 105: the entry's age at tick now, the time datetime.utcnow()
\* reads there, is below ttl_seconds.
fresh_inclusive(timestamp, now) == now - timestamp <= ttl_ticks
fresh_inverted(timestamp, now) == now - timestamp > ttl_ticks
fresh(timestamp, now) == now - timestamp < ttl_ticks

\* get, lines 103-105: the key is resident and its entry is not expired.
local_hit(key, now) ==
    /\ key \in DOMAIN in_memory_cache
    /\ key \in TsKeys(cache_timestamps)
    /\ fresh(TsGet(cache_timestamps, key), now)

\* get's return value, now being the tick at which the Redis command has
\* returned and line 105 reads the clock.
get_local_first(key, ok, now) ==
    IF remote_err(ok) # "none" THEN None
    ELSE IF local_hit(key, now) THEN in_memory_cache[key]
    ELSE IF redis_hit(key, ok) THEN json_loads(redis[key].val)
    ELSE None
get_ret(key, ok, now) ==
    IF remote_err(ok) # "none" THEN None
    ELSE IF redis_hit(key, ok) THEN json_loads(redis[key].val)
    ELSE IF local_hit(key, now) THEN in_memory_cache[key]
    ELSE None

\* The exception get raises: the Redis error if it is not caught, KeyError at
\* line 111 when the value has no timestamp.
get_err(key, ok) ==
    IF remote_err(ok) # "none" THEN remote_err(ok)
    ELSE IF /\ ~redis_hit(key, ok)
            /\ key \in DOMAIN in_memory_cache
            /\ key \notin TsKeys(cache_timestamps)
    THEN "KeyError" ELSE "none"

\* The tier that served get: none when get raises.
get_tier(key, ok, now) ==
    IF get_err(key, ok) # "none" THEN "none"
    ELSE IF redis_hit(key, ok) THEN "remote"
    ELSE IF local_hit(key, now) THEN "local"
    ELSE "miss"

\* get's effect on the stores and the time it takes: the server handles GET
\* at the present tick, the answer comes wait ticks later, and lines 103-111
\* look the key up, drop the expired entry, at that time.
get_step_keeps_expired(key, ok, wait) ==
    /\ clock' = clock + wait
    /\ redis' = redis_at(redis, clock + wait)
    /\ UNCHANGED <<in_memory_cache, cache_timestamps>>
get_step_read_through(key, ok, wait) ==
    /\ clock' = clock + wait
    /\ IF redis_hit(key, ok)
       THEN /\ in_memory_cache' =
                  DictPut(in_memory_cache, key, json_loads(redis[key].val))
            /\ cache_timestamps' = TsPut(cache_timestamps, key,
                                           utcnow(cache_timestamps, clock + wait))
       ELSE IF /\ remote_err(ok) = "none"
               /\ key \in DOMAIN in_memory_cache
               /\ ~local_hit(key, clock + wait)
       THEN /\ in_memory_cache' = DictDel(in_memory_cache, key)
            /\ cache_timestamps' = TsDel(cache_timestamps, key)
       ELSE UNCHANGED <<in_memory_cache, cache_timestamps>>
    /\ redis' = redis_at(redis, clock + wait)
get_step_refreshes(key, ok, wait) ==
    /\ clock' = clock + wait
    /\ IF /\ remote_err(ok) = "none"
          /\ ~redis_hit(key, ok)
          /\ key \in DOMAIN in_memory_cache
       THEN IF local_hit(key, clock + wait)
            THEN /\ cache_timestamps' = TsPut(cache_timestamps, key,
                                           utcnow(cache_timestamps, clock + wait))
                 /\ UNCHANGED in_memory_cache
            ELSE /\ in_memory_cache' = DictDel(in_memory_cache, key)
                 /\ cache_timestamps' = TsDel(cache_timestamps, key)
       ELSE UNCHANGED <<in_memory_cache, cache_timestamps>>
    /\ redis' = redis_at(redis, clock + wait)
get_step_orphan_timestamp(key, ok, wait) ==
    /\ clock' = clock + wait
    /\ IF /\ remote_err(ok) = "none"
          /\ ~redis_hit(key, ok)
          /\ key \in DOMAIN in_memory_cache
          /\ ~local_hit(key, clock + wait)
       THEN /\ in_memory_cache' = DictDel(in_memory_cache, key)
            /\ UNCHANGED cache_timestamps
       ELSE UNCHANGED <<in_memory_cache, cache_timestamps>>
    /\ redis' = redis_at(redis, clock + wait)
get_step(key, ok, wait) ==
    /\ clock' = clock + wait
    /\ IF /\ remote_err(ok) = "none"
          /\ ~redis_hit(key, ok)
          /\ key \in DOMAIN in_memory_cache
          /\ ~local_hit(key, clock + wait)
       THEN /\ in_memory_cache' = DictDel(in_memory_cache, key)
            /\ cache_timestamps' = TsDel(cache_timestamps, key)
       ELSE UNCHANGED <<in_memory_cache, cache_timestamps>>
    /\ redis' = redis_at(redis, clock + wait)

\* set, lines 127-136: SETEX key ttl_seconds text, which the server refuses
\* for a non-positive expiry; any error is logged and dropped.
redis_set_double_expiry(key, value, ok) ==
    IF connected /\ ok /\ config.ttl_seconds > 0
    THEN DictPut(redis, key, [val |-> json_dumps(value),
                              exp |-> clock + 2 * ttl_ticks])
    ELSE redis
redis_set_no_expiry(key, value, ok) ==
    IF connected /\ ok /\ config.ttl_seconds > 0
    THEN DictPut(redis, key, [val |-> json_dumps(value),
                              exp |-> MaxClock + 1])
    ELSE redis
redis_set_if_absent(key, value, ok) ==
    IF connected /\ ok /\ config.ttl_seconds > 0 /\ key \notin DOMAIN redis
    THEN DictPut(redis, key, [val |-> json_dumps(value),
                              exp |-> clock + ttl_ticks])
    ELSE redis
redis_after_set(key, value, ok) ==
    IF connected /\ ok /\ config.ttl_seconds > 0
    THEN DictPut(redis, key, [val |-> json_dumps(value),
                              exp |-> clock + ttl_ticks])
    ELSE redis

\* set, line 139: the store is full.
over_capacity(size) == size > config.max_size
at_capacity(size) == size >= config.max_size

\* The exception set raises: the Redis error if it is not caught, ValueError
\* at line 141 (min of an empty dict), KeyError at line 142 (no such value).
set_err(key, ok) ==
    IF remote_err(ok) # "none" THEN remote_err(ok)
    ELSE IF ~at_capacity(Cardinality(DOMAIN in_memory_cache)) THEN "none"
    ELSE IF cache_timestamps = <<>> THEN "ValueError"
    ELSE IF oldest_key(cache_timestamps) \notin DOMAIN in_memory_cache THEN "KeyError"
    ELSE "none"

\* set's effect on the stores and the time it takes: the server handles
\* SETEX at the present tick, the answer comes wait ticks later, and line 146
\* reads datetime.utcnow() after it.
set_step_fallback_only(key, value, ok, wait) ==
    /\ clock' = clock + wait
    /\ redis' = redis_at(redis_after_set(key, value, ok), clock + wait)
    /\ IF set_err(key, ok) # "none" \/ (connected /\ ok)
       THEN UNCHANGED <<in_memory_cache, cache_timestamps>>
       ELSE LET full == at_capacity(Cardinality(DOMAIN in_memory_cache))
                oldest == oldest_key(cache_timestamps)
                m1 == IF full THEN DictDel(in_memory_cache, oldest)
                      ELSE in_memory_cache
                t1 == IF full THEN TsDel(cache_timestamps, oldest)
                      ELSE cache_timestamps
            IN /\ in_memory_cache' = DictPut(m1, key, value)
               /\ cache_timestamps' = TsPut(t1, key, utcnow(t1, clock + wait))
set_step(key, value, ok, wait) ==
    /\ clock' = clock + wait
    /\ redis' = redis_at(redis_after_set(key, value, ok), clock + wait)
    /\ IF set_err(key, ok) # "none"
       THEN UNCHANGED <<in_memory_cache, cache_timestamps>>
       ELSE LET full == at_capacity(Cardinality(DOMAIN in_memory_cache))
                oldest == oldest_key(cache_timestamps)
                m1 == IF full THEN DictDel(in_memory_cache, oldest)
                      ELSE in_memory_cache
                t1 == IF full THEN TsDel(cache_timestamps, oldest)
                      ELSE cache_timestamps
            IN /\ in_memory_cache' = DictPut(m1, key, value)
               /\ cache_timestamps' = TsPut(t1, key, utcnow(t1, clock + wait))

\* The exception delete raises: the Redis error if it is not caught, KeyError
\* at line 166 when the value has no timestamp.
delete_err(key, ok) ==
    IF remote_err(ok) # "none" THEN remote_err(ok)
    ELSE IF key \in DOMAIN in_memory_cache /\ key \notin TsKeys(cache_timestamps)
    THEN "KeyError" ELSE "none"

\* delete's effect on the stores and the time it takes: the server handles
\* DEL at the present tick, the answer comes wait ticks later, and lines
\* 164-166 remove the local entry then.
delete_local_only(key, ok, wait) ==
    /\ clock' = clock + wait
    /\ redis' = redis_at(redis, clock + wait)
    /\ IF remote_err(ok) = "none" /\ key \in DOMAIN in_memory_cache
       THEN /\ in_memory_cache' = DictDel(in_memory_cache, key)
            /\ cache_timestamps' = TsDel(cache_timestamps, key)
       ELSE UNCHANGED <<in_memory_cache, cache_timestamps>>
delete_step(key, ok, wait) ==
    /\ clock' = clock + wait
    /\ redis' = redis_at(IF connected /\ ok THEN DictDel(redis, key) ELSE redis,
                         clock + wait)
    /\ IF remote_err(ok) = "none" /\ key \in DOMAIN in_memory_cache
       THEN /\ in_memory_cache' = DictDel(in_memory_cache, key)
            /\ cache_timestamps' = TsDel(cache_timestamps, key)
       ELSE UNCHANGED <<in_memory_cache, cache_timestamps>>

\* ------------------------------------------------------------ history
\* op, key, val: the call and its arguments; ret: what get returned; remote:
\* RemoteOutcome; err: the exception raised; removed: the keys the call took
\* out of in_memory_cache; tier: the tier that served get; sent: the time the
\* call began and sent its Redis command; at: the time it returned.
Last0 == [op |-> "init", key |-> NoKey, val |-> None, ret |-> None,
          remote |-> "none", err |-> "none", removed |-> {}, tier |-> "none",
          at |-> 0, sent |-> 0]

\* ttl: the decorator's ttl argument, None or an int, which the wrappers
\* never read.
\* pc: where the wrapper stands; funcs, sets: how often this call ran the
\* wrapped function and cache_manager.set; done: the call returned ret; at:
\* when it stored its result; second: the call came right after a call with
\* the same arguments that ran the function less than ttl_seconds ago;
\* raised: the call ended with the function's exception; again: the call came
\* right after a call with the same arguments that raised; err: the
\* exception of cache_manager.get or set that ended the call.
W0 == [pc |-> "idle", key |-> NoKey, cached_value |-> None, result |-> None,
       ret |-> None, funcs |-> 0, sets |-> 0, second |-> FALSE,
       done |-> FALSE, at |-> 0, ttl |-> None, raised |-> FALSE,
       again |-> FALSE, err |-> "none"]

\* The frame of a thread inside a manager call: pc is the line it executes
\* next ("idle" between calls), op the call, key and value the call's locals,
\* oldest_key and timestamp the locals of lines 141 and 104, now the value
\* of datetime.utcnow() at line 146 until it is stored, ret and err what the
\* call returned or raised.
T0 == [pc |-> "idle", op |-> "none", key |-> NoKey, value |-> None,
       oldest_key |-> NoKey, timestamp |-> None, now |-> NoStamp,
       ret |-> None, err |-> "none"]

ThreadIds == 1..MaxThreads

Enc0 == [namespace |-> "", a1 |-> <<>>, a2 |-> <<>>, k1 |-> NoKey,
         k2 |-> NoKey, done |-> FALSE]

\* ------------------------------------------------------------- inputs
\* cached, lines 221-224: cache_key = {"args": str(args), "kwargs": str(kwargs)}
\* for the call f(x). A string is named by a number: "A" by 1, str({}) by 2
\* and str((x,)) by 10 + x.
cache_key(x) == <<<<"args", PyStr(10 + x)>>, <<"kwargs", PyStr(2)>>>>

\* The calls f(x) made of the wrapped function.
CallArgs == {1}

\* The keyword mappings callers pass to get, set and delete: one mapping in
\* both insertion orders, and the mapping the wrapper builds.
ArgChoices ==
    {<<<<"a", PyInt(1)>>, <<"b", PyInt(2)>>>>,
     <<<<"b", PyInt(2)>>, <<"a", PyInt(1)>>>>}
    \cup {cache_key(x) : x \in CallArgs}

\* The mappings of the capacity runs: {id: 1}, {id: 2}, {id: 3}.
CapacityArgChoices ==
    {<<<<"id", PyInt(i)>>>> : i \in {1, 2, 3}}

\* Mappings with a value json cannot serialise: {id: obj}, where str(obj) is
\* the string named 20, next to {id: 1}.
ObjectArgChoices ==
    {<<<<"id", PyObject(20)>>>>, <<<<"id", PyInt(1)>>>>}

\* The ttl arguments given to the decorator.
Ttls == {PyInt(i) : i \in 1..(MaxTtl + 1)}

\* Whether the call's Redis command succeeds; nothing to choose without a client.
Oks == IF connected THEN BOOLEAN ELSE {TRUE}

\* --------------------------------------------------------------- Init
\* CacheManager.__init__, lines 50-64: empty dicts; a client only when
\* use_redis is set, the redis module is importable and the ping succeeds.
Init ==
    /\ config \in [ttl_seconds : 1..MaxTtl, max_size : 1..MaxSize,
                   use_redis : BOOLEAN]
    /\ redis_client \in (IF config.use_redis THEN {"client", "None"} ELSE {"None"})
    /\ in_memory_cache = <<>>
    /\ cache_timestamps = <<>>
    /\ redis = <<>>
    /\ clock = 0
    /\ last = Last0
    /\ setAt = <<>>
    /\ w = W0
    /\ enc = Enc0
    /\ latest = <<>>
    /\ threads = [t \in ThreadIds |-> T0]

\* ------------------------------------------------------------ actions
\* CacheManager.get(namespace, **kwargs)
get(namespace, kwargs, ok, wait) ==
    /\ w.pc = "idle"
    /\ LET key == generate_key(namespace, kwargs)
       IN /\ get_step(key, ok, wait)
          /\ last' = [op |-> "get", key |-> key, val |-> None,
                      ret |-> get_ret(key, ok, clock + wait), remote |-> RemoteOutcome(ok),
                      err |-> get_err(key, ok),
                      removed |-> DOMAIN in_memory_cache \ DOMAIN in_memory_cache',
                      tier |-> get_tier(key, ok, clock + wait), at |-> clock + wait,
                      sent |-> clock]
    /\ latest' = Unkeep(DOMAIN in_memory_cache \ DOMAIN in_memory_cache')
    /\ w' = W0
    /\ UNCHANGED <<config, redis_client, setAt, enc, threads>>

\* CacheManager.set(namespace, value, **kwargs)
set(namespace, value, kwargs, ok, wait) ==
    /\ w.pc = "idle"
    /\ LET key == generate_key(namespace, kwargs)
       IN /\ set_step(key, value, ok, wait)
          /\ last' = [op |-> "set", key |-> key, val |-> value, ret |-> None,
                      remote |-> RemoteOutcome(ok), err |-> set_err(key, ok),
                      removed |-> DOMAIN in_memory_cache \ DOMAIN in_memory_cache',
                      tier |-> "none", at |-> clock + wait,
                      sent |-> clock]
          /\ setAt' = Watch(key, clock + wait)
          /\ latest' = NoteSet(key, value, RemoteOutcome(ok),
                               DOMAIN in_memory_cache \ DOMAIN in_memory_cache')
    /\ w' = W0
    /\ UNCHANGED <<config, redis_client, enc, threads>>

\* CacheManager.delete(namespace, **kwargs)
delete(namespace, kwargs, ok, wait) ==
    /\ w.pc = "idle"
    /\ LET key == generate_key(namespace, kwargs)
       IN /\ delete_step(key, ok, wait)
          /\ last' = [op |-> "delete", key |-> key, val |-> None, ret |-> None,
                      remote |-> RemoteOutcome(ok), err |-> delete_err(key, ok),
                      removed |-> DOMAIN in_memory_cache \ DOMAIN in_memory_cache',
                      tier |-> "none", at |-> clock + wait, sent |-> clock]
          /\ latest' = NoteDelete(key, RemoteOutcome(ok),
                                  DOMAIN in_memory_cache \ DOMAIN in_memory_cache')
    /\ w' = W0
    /\ UNCHANGED <<config, redis_client, setAt, enc, threads>>

\* CacheManager.clear()
clear_both_tiers ==
    /\ w.pc = "idle"
    /\ in_memory_cache' = <<>>
    /\ cache_timestamps' = <<>>
    /\ redis' = <<>>
    /\ last' = [Last0 EXCEPT !.op = "clear", !.removed = DOMAIN in_memory_cache,
                             !.at = clock, !.sent = clock]
    /\ latest' = Unkeep(DOMAIN in_memory_cache)
    /\ w' = W0
    /\ UNCHANGED <<config, redis_client, clock, setAt, enc, threads>>
clear ==
    /\ w.pc = "idle"
    /\ in_memory_cache' = <<>>
    /\ cache_timestamps' = <<>>
    /\ last' = [Last0 EXCEPT !.op = "clear", !.removed = DOMAIN in_memory_cache,
                             !.at = clock, !.sent = clock]
    /\ latest' = Unkeep(DOMAIN in_memory_cache)
    /\ w' = W0
    /\ UNCHANGED <<config, redis_client, redis, clock, setAt, enc, threads>>

\* get_stats, line 184: self.redis_client is not None.
use_redis_configured == config.use_redis
redis_connected == redis_client # "None"

\* CacheManager.get_stats(): the snapshot it returns is kept in last.ret.
get_stats ==
    /\ w.pc = "idle"
    /\ last' = [Last0 EXCEPT
                  !.op = "stats",
                  !.ret = [in_memory_size |-> Cardinality(DOMAIN in_memory_cache),
                           in_memory_max |-> config.max_size,
                           ttl_seconds |-> config.ttl_seconds,
                           redis_connected |-> redis_connected],
                  !.at = clock, !.sent = clock]
    /\ w' = W0
    /\ UNCHANGED <<config, redis_client, in_memory_cache, cache_timestamps,
                   redis, clock, setAt, enc, latest, threads>>

\* Time passes; the server drops the keys whose expiry has come.
Tick ==
    /\ clock < MaxClock
    /\ clock' = clock + 1
    /\ redis' = redis_at(redis, clock + 1)
    /\ UNCHANGED <<config, redis_client, in_memory_cache, cache_timestamps,
                   last, setAt, w, enc, latest, threads>>

\* ------------------------------------------------------------- cached
\* sync_wrapper of cached(cache_manager, namespace, ttl), lines 221-227: build
\* cache_key and call cache_manager.get.
sync_wrapper_get(namespace, ttl, x, ok, wait) ==
    /\ w.pc = "idle"
    /\ LET key == generate_key(namespace, cache_key(x))
       IN /\ get_step(key, ok, wait)
          /\ last' = [op |-> "get", key |-> key, val |-> None,
                      ret |-> get_ret(key, ok, clock + wait), remote |-> RemoteOutcome(ok),
                      err |-> get_err(key, ok),
                      removed |-> DOMAIN in_memory_cache \ DOMAIN in_memory_cache',
                      tier |-> get_tier(key, ok, clock + wait), at |-> clock + wait,
                      sent |-> clock]
          /\ w' = [W0 EXCEPT !.pc = IF get_err(key, ok) # "none"
                                     THEN "idle" ELSE "got",
                             !.err = get_err(key, ok),
                             !.key = key, !.ttl = ttl,
                             !.cached_value = get_ret(key, ok, clock + wait),
                             !.second = /\ w.done
                                        /\ w.key = key
                                        /\ w.funcs = 1
                                        /\ clock + wait - w.at < ttl_ticks,
                             !.again = w.raised /\ w.key = key]
    /\ latest' = Unkeep(DOMAIN in_memory_cache \ DOMAIN in_memory_cache')
    /\ UNCHANGED <<config, redis_client, setAt, enc, threads>>

\* sync_wrapper, line 228: `cached_value is not None` decides a hit.
is_hit(cached_value) == cached_value # None

\* sync_wrapper, lines 228-229: return the cached value.
sync_wrapper_hit ==
    /\ w.pc = "got"
    /\ is_hit(w.cached_value)
    /\ w' = [w EXCEPT !.pc = "idle", !.ret = w.cached_value, !.done = TRUE]
    /\ UNCHANGED <<config, redis_client, in_memory_cache, cache_timestamps,
                   redis, clock, last, setAt, enc, latest, threads>>

\* sync_wrapper, line 232: call the wrapped function.
sync_wrapper_func(result) ==
    /\ w.pc = "got"
    /\ ~is_hit(w.cached_value)
    /\ w' = [w EXCEPT !.pc = "computed", !.result = result, !.funcs = @ + 1]
    /\ UNCHANGED <<config, redis_client, in_memory_cache, cache_timestamps,
                   redis, clock, last, setAt, enc, latest, threads>>

\* sync_wrapper, line 232: the wrapped function raises; the wrapper has no
\* handler, so the exception leaves the call before line 235.
sync_wrapper_raise_cached ==
    /\ w.pc = "got"
    /\ ~is_hit(w.cached_value)
    /\ set_step(w.key, None, TRUE, 0)
    /\ w' = [w EXCEPT !.pc = "idle", !.funcs = @ + 1, !.sets = @ + 1,
                      !.raised = TRUE]
    /\ UNCHANGED <<config, redis_client, last, setAt, enc, latest, threads>>
sync_wrapper_raise ==
    /\ w.pc = "got"
    /\ ~is_hit(w.cached_value)
    /\ w' = [w EXCEPT !.pc = "idle", !.funcs = @ + 1, !.raised = TRUE]
    /\ UNCHANGED <<config, redis_client, in_memory_cache, cache_timestamps,
                   redis, clock, last, setAt, enc, latest, threads>>

\* sync_wrapper, line 235: the value handed to cache_manager.set.
stored_cached_value(result, cached_value) == cached_value
stored_value(result, cached_value) == result

\* sync_wrapper, lines 235-236: store the result and return it; an exception
\* of set leaves the wrapper instead.
sync_wrapper_set(ok, wait) ==
    /\ w.pc = "computed"
    /\ LET value == stored_value(w.result, w.cached_value)
       IN /\ set_step(w.key, value, ok, wait)
          /\ last' = [op |-> "set", key |-> w.key, val |-> value, ret |-> None,
                      remote |-> RemoteOutcome(ok), err |-> set_err(w.key, ok),
                      removed |-> DOMAIN in_memory_cache \ DOMAIN in_memory_cache',
                      tier |-> "none", at |-> clock + wait,
                      sent |-> clock]
          /\ latest' = NoteSet(w.key, value, RemoteOutcome(ok),
                               DOMAIN in_memory_cache \ DOMAIN in_memory_cache')
    /\ setAt' = Watch(w.key, clock + wait)
    /\ w' = IF set_err(w.key, ok) # "none"
            THEN [w EXCEPT !.pc = "idle", !.sets = @ + 1,
                           !.err = set_err(w.key, ok)]
            ELSE [w EXCEPT !.pc = "idle", !.sets = @ + 1, !.ret = w.result,
                           !.done = TRUE, !.at = clock + wait]
    /\ UNCHANGED <<config, redis_client, enc, threads>>

\* ------------------------------------------------------------ threads
\* The manager's calls as concurrent threads run them. The code takes no
\* lock, so a thread may be preempted between any two statements: there is
\* one action per statement that reads or writes the dicts (each dict
\* operation is atomic in itself), named by its line.
Returned(t, value) == [T0 EXCEPT !.op = threads[t].op, !.ret = value]
Raised(t, error) == [T0 EXCEPT !.op = threads[t].op, !.err = error]

ThreadFrame == UNCHANGED <<config, redis_client, clock, last, setAt, w, enc, latest>>

\* The readings of utcnow() that threads hold and have not stored yet.
PendingOf(thr) ==
    {thr[u].now : u \in {x \in ThreadIds : thr[x].pc = "set_146_store"}}

\* A statement left ts in cache_timestamps and thr in the frames: every
\* reading, stored or held, is brought back to its place in its tick.
ThreadsSettle(ts, thr) ==
    LET S == StampsOf(ts) \cup PendingOf(thr)
    IN /\ cache_timestamps' = Renumber(ts, S)
       /\ threads' = [u \in ThreadIds |->
              IF thr[u].pc = "set_146_store"
              THEN [thr[u] EXCEPT !.now = [t |-> @.t, n |-> Rank(@, S)]]
              ELSE thr[u]]

\* set, lines 124-136: the key, and SETEX on a connected client.
t_set(t, namespace, value, kwargs, ok) ==
    /\ threads[t].pc = "idle"
    /\ LET key == generate_key(namespace, kwargs)
       IN /\ redis' = redis_after_set(key, value, ok)
          /\ threads' = [threads EXCEPT ![t] =
                 IF remote_err(ok) # "none"
                 THEN [T0 EXCEPT !.op = "set", !.err = remote_err(ok)]
                 ELSE [T0 EXCEPT !.pc = "set_139", !.op = "set", !.key = key,
                                 !.value = value]]
    /\ UNCHANGED <<in_memory_cache, cache_timestamps>>
    /\ ThreadFrame

\* set, line 139: if len(self.in_memory_cache) >= self.config.max_size
t_set_139(t) ==
    /\ threads[t].pc = "set_139"
    /\ threads' = [threads EXCEPT ![t].pc =
           IF at_capacity(Cardinality(DOMAIN in_memory_cache))
           THEN "set_141" ELSE "set_145"]
    /\ UNCHANGED <<in_memory_cache, cache_timestamps, redis>>
    /\ ThreadFrame

\* set, line 141: oldest_key = min(self.cache_timestamps, ...)
t_set_141(t) ==
    /\ threads[t].pc = "set_141"
    /\ threads' = [threads EXCEPT ![t] =
           IF cache_timestamps = <<>>
           THEN Raised(t, "ValueError")
           ELSE [@ EXCEPT !.pc = "set_142",
                          !.oldest_key = oldest_key(cache_timestamps)]]
    /\ UNCHANGED <<in_memory_cache, cache_timestamps, redis>>
    /\ ThreadFrame

\* set, line 142: del self.in_memory_cache[oldest_key]
t_set_142(t) ==
    /\ threads[t].pc = "set_142"
    /\ IF threads[t].oldest_key \in DOMAIN in_memory_cache
       THEN /\ in_memory_cache' = DictDel(in_memory_cache, threads[t].oldest_key)
            /\ threads' = [threads EXCEPT ![t].pc = "set_143"]
       ELSE /\ threads' = [threads EXCEPT ![t] = Raised(t, "KeyError")]
            /\ UNCHANGED in_memory_cache
    /\ UNCHANGED <<cache_timestamps, redis>>
    /\ ThreadFrame

\* set, line 143: del self.cache_timestamps[oldest_key]
t_set_143(t) ==
    /\ threads[t].pc = "set_143"
    /\ IF threads[t].oldest_key \in TsKeys(cache_timestamps)
       THEN ThreadsSettle(TsDelRaw(cache_timestamps, threads[t].oldest_key),
                          [threads EXCEPT ![t].pc = "set_145"])
       ELSE /\ threads' = [threads EXCEPT ![t] = Raised(t, "KeyError")]
            /\ UNCHANGED cache_timestamps
    /\ UNCHANGED <<in_memory_cache, redis>>
    /\ ThreadFrame

\* set, line 145: self.in_memory_cache[key] = value
t_set_145(t) ==
    /\ threads[t].pc = "set_145"
    /\ in_memory_cache' = DictPut(in_memory_cache, threads[t].key, threads[t].value)
    /\ threads' = [threads EXCEPT ![t].pc = "set_146"]
    /\ UNCHANGED <<cache_timestamps, redis>>
    /\ ThreadFrame

\* set, line 146, the right-hand side: datetime.utcnow() is read, after every
\* reading of this tick made so far.
t_set_146_utcnow(t) ==
    /\ threads[t].pc = "set_146"
    /\ LET S == StampsOf(cache_timestamps) \cup PendingOf(threads)
       IN threads' = [threads EXCEPT ![t] =
              [@ EXCEPT !.pc = "set_146_store",
                        !.now = [t |-> clock,
                                 n |-> 1 + Cardinality({x \in S : x.t = clock})]]]
    /\ UNCHANGED <<in_memory_cache, cache_timestamps, redis>>
    /\ ThreadFrame

\* set, line 146, the store: self.cache_timestamps[key] = <the value read>
t_set_146(t) ==
    /\ threads[t].pc = "set_146_store"
    /\ ThreadsSettle(TsPutRaw(cache_timestamps, threads[t].key, threads[t].now),
                     [threads EXCEPT ![t] = Returned(t, None)])
    /\ UNCHANGED <<in_memory_cache, redis>>
    /\ ThreadFrame

\* get, lines 90-100: the key, and GET on a connected client.
t_get(t, namespace, kwargs, ok) ==
    /\ threads[t].pc = "idle"
    /\ LET key == generate_key(namespace, kwargs)
       IN threads' = [threads EXCEPT ![t] =
              IF remote_err(ok) # "none"
              THEN [T0 EXCEPT !.op = "get", !.err = remote_err(ok)]
              ELSE IF redis_hit(key, ok)
              THEN [T0 EXCEPT !.op = "get", !.ret = json_loads(redis[key].val)]
              ELSE [T0 EXCEPT !.pc = "get_103", !.op = "get", !.key = key]]
    /\ UNCHANGED <<in_memory_cache, cache_timestamps, redis>>
    /\ ThreadFrame

\* get, line 103: if key in self.in_memory_cache
t_get_103(t) ==
    /\ threads[t].pc = "get_103"
    /\ threads' = [threads EXCEPT ![t] =
           IF threads[t].key \in DOMAIN in_memory_cache
           THEN [@ EXCEPT !.pc = "get_104"]
           ELSE Returned(t, None)]
    /\ UNCHANGED <<in_memory_cache, cache_timestamps, redis>>
    /\ ThreadFrame

\* get, line 104: timestamp = self.cache_timestamps.get(key)
t_get_104(t) ==
    /\ threads[t].pc = "get_104"
    /\ threads' = [threads EXCEPT ![t] =
           [@ EXCEPT !.pc = "get_105",
                     !.timestamp =
                         IF threads[t].key \in TsKeys(cache_timestamps)
                         THEN PyInt(TsGet(cache_timestamps, threads[t].key))
                         ELSE None]]
    /\ UNCHANGED <<in_memory_cache, cache_timestamps, redis>>
    /\ ThreadFrame

\* get, line 105: if timestamp and (utcnow() - timestamp) < ttl_seconds
t_get_105(t) ==
    /\ threads[t].pc = "get_105"
    /\ threads' = [threads EXCEPT ![t].pc =
           IF threads[t].timestamp # None /\ fresh(threads[t].timestamp.v, clock)
           THEN "get_107" ELSE "get_110"]
    /\ UNCHANGED <<in_memory_cache, cache_timestamps, redis>>
    /\ ThreadFrame

\* get, line 107: return self.in_memory_cache[key]
t_get_107(t) ==
    /\ threads[t].pc = "get_107"
    /\ threads' = [threads EXCEPT ![t] =
           IF threads[t].key \in DOMAIN in_memory_cache
           THEN Returned(t, in_memory_cache[threads[t].key])
           ELSE Raised(t, "KeyError")]
    /\ UNCHANGED <<in_memory_cache, cache_timestamps, redis>>
    /\ ThreadFrame

\* get, line 110: del self.in_memory_cache[key]
t_get_110(t) ==
    /\ threads[t].pc = "get_110"
    /\ IF threads[t].key \in DOMAIN in_memory_cache
       THEN /\ in_memory_cache' = DictDel(in_memory_cache, threads[t].key)
            /\ threads' = [threads EXCEPT ![t].pc = "get_111"]
       ELSE /\ threads' = [threads EXCEPT ![t] = Raised(t, "KeyError")]
            /\ UNCHANGED in_memory_cache
    /\ UNCHANGED <<cache_timestamps, redis>>
    /\ ThreadFrame

\* get, lines 111-114: del self.cache_timestamps[key]; return None
t_get_111(t) ==
    /\ threads[t].pc = "get_111"
    /\ IF threads[t].key \in TsKeys(cache_timestamps)
       THEN ThreadsSettle(TsDelRaw(cache_timestamps, threads[t].key),
                          [threads EXCEPT ![t] = Returned(t, None)])
       ELSE /\ threads' = [threads EXCEPT ![t] = Raised(t, "KeyError")]
            /\ UNCHANGED cache_timestamps
    /\ UNCHANGED <<in_memory_cache, redis>>
    /\ ThreadFrame

\* delete, lines 156-162: the key, and DEL on a connected client.
t_delete(t, namespace, kwargs, ok) ==
    /\ threads[t].pc = "idle"
    /\ LET key == generate_key(namespace, kwargs)
       IN /\ redis' = IF connected /\ ok THEN DictDel(redis, key) ELSE redis
          /\ threads' = [threads EXCEPT ![t] =
                 IF remote_err(ok) # "none"
                 THEN [T0 EXCEPT !.op = "delete", !.err = remote_err(ok)]
                 ELSE [T0 EXCEPT !.pc = "delete_164", !.op = "delete", !.key = key]]
    /\ UNCHANGED <<in_memory_cache, cache_timestamps>>
    /\ ThreadFrame

\* delete, line 164: if key in self.in_memory_cache
t_delete_164(t) ==
    /\ threads[t].pc = "delete_164"
    /\ threads' = [threads EXCEPT ![t] =
           IF threads[t].key \in DOMAIN in_memory_cache
           THEN [@ EXCEPT !.pc = "delete_165"]
           ELSE Returned(t, None)]
    /\ UNCHANGED <<in_memory_cache, cache_timestamps, redis>>
    /\ ThreadFrame

\* delete, line 165: del self.in_memory_cache[key]
t_delete_165(t) ==
    /\ threads[t].pc = "delete_165"
    /\ IF threads[t].key \in DOMAIN in_memory_cache
       THEN /\ in_memory_cache' = DictDel(in_memory_cache, threads[t].key)
            /\ threads' = [threads EXCEPT ![t].pc = "delete_166"]
       ELSE /\ threads' = [threads EXCEPT ![t] = Raised(t, "KeyError")]
            /\ UNCHANGED in_memory_cache
    /\ UNCHANGED <<cache_timestamps, redis>>
    /\ ThreadFrame

\* delete, line 166: del self.cache_timestamps[key]
t_delete_166(t) ==
    /\ threads[t].pc = "delete_166"
    /\ IF threads[t].key \in TsKeys(cache_timestamps)
       THEN ThreadsSettle(TsDelRaw(cache_timestamps, threads[t].key),
                          [threads EXCEPT ![t] = Returned(t, None)])
       ELSE /\ threads' = [threads EXCEPT ![t] = Raised(t, "KeyError")]
            /\ UNCHANGED cache_timestamps
    /\ UNCHANGED <<in_memory_cache, redis>>
    /\ ThreadFrame

\* clear, line 170: self.in_memory_cache.clear()
t_clear_170(t) ==
    /\ threads[t].pc = "idle"
    /\ in_memory_cache' = <<>>
    /\ threads' = [threads EXCEPT ![t] = [T0 EXCEPT !.pc = "clear_171", !.op = "clear"]]
    /\ UNCHANGED <<cache_timestamps, redis>>
    /\ ThreadFrame

\* clear, lines 171-172: self.cache_timestamps.clear()
t_clear_171(t) ==
    /\ threads[t].pc = "clear_171"
    /\ ThreadsSettle(<<>>, [threads EXCEPT ![t] = Returned(t, None)])
    /\ UNCHANGED <<in_memory_cache, redis>>
    /\ ThreadFrame

\* The mappings and the value the threads use: {id: 1}, {id: 2} and "A".
ThreadArgChoices == {<<<<"id", PyInt(i)>>>> : i \in {1, 2}}
ThreadValues == {PyStr(1)}

\* The statements of a set call in some thread.
SetSteps ==
    \/ \E t \in ThreadIds, a \in ThreadArgChoices, v \in ThreadValues, ok \in Oks :
          t_set(t, "ns", v, a, ok)
    \/ \E t \in ThreadIds : t_set_139(t)
    \/ \E t \in ThreadIds : t_set_141(t)
    \/ \E t \in ThreadIds : t_set_142(t)
    \/ \E t \in ThreadIds : t_set_143(t)
    \/ \E t \in ThreadIds : t_set_145(t)
    \/ \E t \in ThreadIds : t_set_146_utcnow(t)
    \/ \E t \in ThreadIds : t_set_146(t)

\* The statements of a get, delete or clear call in some thread.
OtherSteps ==
    \/ \E t \in ThreadIds, a \in ThreadArgChoices, ok \in Oks : t_get(t, "ns", a, ok)
    \/ \E t \in ThreadIds : t_get_103(t)
    \/ \E t \in ThreadIds : t_get_104(t)
    \/ \E t \in ThreadIds : t_get_105(t)
    \/ \E t \in ThreadIds : t_get_107(t)
    \/ \E t \in ThreadIds : t_get_110(t)
    \/ \E t \in ThreadIds : t_get_111(t)
    \/ \E t \in ThreadIds, a \in ThreadArgChoices, ok \in Oks : t_delete(t, "ns", a, ok)
    \/ \E t \in ThreadIds : t_delete_164(t)
    \/ \E t \in ThreadIds : t_delete_165(t)
    \/ \E t \in ThreadIds : t_delete_166(t)
    \/ \E t \in ThreadIds : t_clear_170(t)
    \/ \E t \in ThreadIds : t_clear_171(t)

\* ---------------------------------------------------------------- Next
CallsOf(choices, values) ==
    \/ \E a \in choices, ok \in Oks, wait \in Waits : get("ns", a, ok, wait)
    \/ \E a \in choices, v \in values, ok \in Oks, wait \in Waits :
          set("ns", v, a, ok, wait)
    \/ \E a \in choices, ok \in Oks, wait \in Waits : delete("ns", a, ok, wait)
    \/ clear

Calls(choices) == CallsOf(choices, Values)

\* The wrapped function's own keys, as direct callers of the manager name them.
WrapperArgChoices == {cache_key(x) : x \in CallArgs}

Next ==
    \/ Calls(WrapperArgChoices)
    \/ Tick
    \/ \E x \in CallArgs, ok \in Oks, wait \in Waits :
          sync_wrapper_get("ns", None, x, ok, wait)
    \/ sync_wrapper_hit
    \/ \E r \in Results : sync_wrapper_func(r)
    \/ \E ok \in Oks, wait \in Waits : sync_wrapper_set(ok, wait)

Spec == Init /\ [][Next]_vars

\* The manager's public contract alone: get, set, delete, clear and get_stats.
NextManager ==
    \/ Calls(ArgChoices)
    \/ get_stats
    \/ Tick

SpecManager == Init /\ [][NextManager]_vars

\* Configurations as CacheConfig accepts them: any integers.
InitConfig ==
    /\ config \in [ttl_seconds : 0..MaxTtl, max_size : 0..MaxSize,
                   use_redis : BOOLEAN]
    /\ redis_client \in (IF config.use_redis THEN {"client", "None"} ELSE {"None"})
    /\ in_memory_cache = <<>>
    /\ cache_timestamps = <<>>
    /\ redis = <<>>
    /\ clock = 0
    /\ last = Last0
    /\ setAt = <<>>
    /\ w = W0
    /\ enc = Enc0
    /\ latest = <<>>
    /\ threads = [t \in ThreadIds |-> T0]

SpecConfig == InitConfig /\ [][NextManager]_vars

\* Calls whose keyword values are not JSON values.
NextObject ==
    \/ Calls(ObjectArgChoices)
    \/ Tick

SpecObject == Init /\ [][NextObject]_vars

\* The wrapped function under a decorator that was given a ttl.
NextTtl ==
    \/ \E t \in Ttls, x \in CallArgs, ok \in Oks, wait \in Waits :
          sync_wrapper_get("ns", t, x, ok, wait)
    \/ sync_wrapper_hit
    \/ \E r \in Results : sync_wrapper_func(r)
    \/ \E ok \in Oks, wait \in Waits : sync_wrapper_set(ok, wait)
    \/ Tick

SpecTtl == Init /\ [][NextTtl]_vars

\* The wrapped function may raise; clear empties the Local Store between
\* calls.
NextRaise ==
    \/ \E x \in CallArgs, ok \in Oks, wait \in Waits :
          sync_wrapper_get("ns", None, x, ok, wait)
    \/ sync_wrapper_hit
    \/ \E r \in Results : sync_wrapper_func(r)
    \/ sync_wrapper_raise
    \/ \E ok \in Oks, wait \in Waits : sync_wrapper_set(ok, wait)
    \/ clear
    \/ Tick

SpecRaise == Init /\ [][NextRaise]_vars

\* The history runs: a connected manager called with two mappings; the latest
\* set, or delete, of the first one's key is kept, the other key passing
\* through the stores next to it.
HistoryArgChoices ==
    {<<<<"a", PyInt(1)>>, <<"b", PyInt(2)>>>>, <<<<"id", PyInt(1)>>>>}

HistoryKeys == {generate_key("ns", <<<<"a", PyInt(1)>>, <<"b", PyInt(2)>>>>)}

InitHistory ==
    /\ config \in [ttl_seconds : 1..MaxTtl, max_size : 1..MaxSize,
                   use_redis : {TRUE}]
    /\ redis_client = "client"
    /\ in_memory_cache = <<>>
    /\ cache_timestamps = <<>>
    /\ redis = <<>>
    /\ clock = 0
    /\ last = Last0
    /\ setAt = [k \in HistoryKeys |-> -1]
    /\ w = W0
    /\ enc = Enc0
    /\ latest = [k \in HistoryKeys |->
                   [val |-> None, ever |-> {}, dirty |-> FALSE, kept |-> FALSE]]
    /\ threads = [t \in ThreadIds |-> T0]

NextHistory ==
    \/ Calls(HistoryArgChoices)
    \/ Tick

SpecHistory == InitHistory /\ [][NextHistory]_vars

\* The same manager called with the watched mapping alone and two values.
StaleArgChoices == {<<<<"a", PyInt(1)>>, <<"b", PyInt(2)>>>>}

NextStale ==
    \/ CallsOf(StaleArgChoices, BothValues)
    \/ Tick

SpecStale == InitHistory /\ [][NextStale]_vars

\* One key set to either value, with and without a client.
SpecRoundTrip == Init /\ [][NextStale]_vars

\* Threads that only call set, on a manager without a client.
InitThreads == Init /\ redis_client = "None"

NextWriters == SetSteps

SpecWriters == InitThreads /\ [][NextWriters]_vars

\* Threads that call get, set, delete and clear, while time passes.
NextThreads ==
    \/ SetSteps
    \/ OtherSteps
    \/ Tick

SpecThreads == InitThreads /\ [][NextThreads]_vars

\* ------------------------------------------------ async_wrapper tasks
\* The calls of a wrapped coroutine function as tasks of one event loop. A
\* task runs until it awaits: lines 202-213 up to the await of func run as
\* one step, and lines 216-217 as one step when func has finished. While a
\* task awaits, the loop runs the other tasks.
\* The frame of a task: pc is "idle" before a call, "await_213" while func
\* runs, "done" after the return or the exception; funcs counts the runs of
\* func in the call; err is the exception of cache_manager.get or set, or of
\* func, that ended the task.
A0 == [pc |-> "idle", key |-> NoKey, cached_value |-> None, ret |-> None,
       funcs |-> 0, err |-> "none"]

\* The calls f(x) made of the wrapped coroutine function.
AsyncArgs == {1, 2}

\* The results the awaited func returns in the task runs.
AsyncResults == {PyStr(1)}

\* async_wrapper, lines 202-213: build the key and ask the cache; end with
\* the exception of get, return the cached value on a hit, otherwise start
\* func and await it.
async_wrapper_get(t, namespace, x, ok, wait) ==
    /\ threads[t].pc \in {"idle", "done"}
    /\ LET key == generate_key(namespace, cache_key(x))
       IN /\ get_step(key, ok, wait)
          /\ last' = [op |-> "get", key |-> key, val |-> None,
                      ret |-> get_ret(key, ok, clock + wait), remote |-> RemoteOutcome(ok),
                      err |-> get_err(key, ok),
                      removed |-> DOMAIN in_memory_cache \ DOMAIN in_memory_cache',
                      tier |-> get_tier(key, ok, clock + wait), at |-> clock + wait,
                      sent |-> clock]
          /\ threads' = [threads EXCEPT ![t] =
                IF get_err(key, ok) # "none"
                THEN [A0 EXCEPT !.pc = "done", !.key = key,
                                !.err = get_err(key, ok)]
                ELSE IF is_hit(get_ret(key, ok, clock + wait))
                THEN [A0 EXCEPT !.pc = "done", !.key = key,
                                !.cached_value = get_ret(key, ok, clock + wait),
                                !.ret = get_ret(key, ok, clock + wait)]
                ELSE [A0 EXCEPT !.pc = "await_213", !.key = key, !.funcs = 1]]
    /\ latest' = Unkeep(DOMAIN in_memory_cache \ DOMAIN in_memory_cache')
    /\ UNCHANGED <<config, redis_client, setAt, w, enc>>

\* async_wrapper, lines 213-217: func has finished with result; store it and
\* return it, or end with the exception of set.
async_wrapper_set(t, result, ok, wait) ==
    /\ threads[t].pc = "await_213"
    /\ LET key == threads[t].key
       IN /\ set_step(key, result, ok, wait)
          /\ last' = [op |-> "set", key |-> key, val |-> result, ret |-> None,
                      remote |-> RemoteOutcome(ok), err |-> set_err(key, ok),
                      removed |-> DOMAIN in_memory_cache \ DOMAIN in_memory_cache',
                      tier |-> "none", at |-> clock + wait,
                      sent |-> clock]
          /\ setAt' = Watch(key, clock + wait)
          /\ latest' = NoteSet(key, result, RemoteOutcome(ok),
                               DOMAIN in_memory_cache \ DOMAIN in_memory_cache')
    /\ threads' = [threads EXCEPT ![t] =
           IF set_err(threads[t].key, ok) # "none"
           THEN [@ EXCEPT !.pc = "done", !.err = set_err(threads[t].key, ok)]
           ELSE [@ EXCEPT !.pc = "done", !.ret = result]]
    /\ UNCHANGED <<config, redis_client, w, enc>>

\* async_wrapper, line 213: the awaited func raises; the wrapper has no
\* handler, so the task ends with the exception before line 216.
async_wrapper_raise(t) ==
    /\ threads[t].pc = "await_213"
    /\ threads' = [threads EXCEPT ![t] = [@ EXCEPT !.pc = "done",
                                                   !.err = "Exception"]]
    /\ UNCHANGED <<config, redis_client, in_memory_cache, cache_timestamps,
                   redis, clock, last, setAt, w, enc, latest>>

InitAsync ==
    /\ config \in [ttl_seconds : 1..MaxTtl, max_size : 1..MaxSize,
                   use_redis : BOOLEAN]
    /\ redis_client \in (IF config.use_redis THEN {"client", "None"} ELSE {"None"})
    /\ in_memory_cache = <<>>
    /\ cache_timestamps = <<>>
    /\ redis = <<>>
    /\ clock = 0
    /\ last = Last0
    /\ setAt = <<>>
    /\ w = W0
    /\ enc = Enc0
    /\ latest = <<>>
    /\ threads = [t \in ThreadIds |-> A0]

NextAsync ==
    \/ \E t \in ThreadIds, x \in AsyncArgs, ok \in Oks, wait \in Waits :
          async_wrapper_get(t, "ns", x, ok, wait)
    \/ \E t \in ThreadIds : async_wrapper_raise(t)
    \/ \E t \in ThreadIds, r \in AsyncResults, ok \in Oks, wait \in Waits :
          async_wrapper_set(t, r, ok, wait)
    \/ Tick

SpecAsync == InitAsync /\ [][NextAsync]_vars

\* The capacity runs: no client connected, more keys than max_size.
InitCapacity == Init /\ redis_client = "None"

NextCapacity ==
    \/ Calls(CapacityArgChoices)
    \/ Tick

SpecCapacity == InitCapacity /\ [][NextCapacity]_vars

\* The capacity runs with the time of the latest set of every key kept.
InitRecency ==
    /\ config \in [ttl_seconds : 1..MaxTtl, max_size : 1..MaxSize,
                   use_redis : BOOLEAN]
    /\ redis_client = "None"
    /\ in_memory_cache = <<>>
    /\ cache_timestamps = <<>>
    /\ redis = <<>>
    /\ clock = 0
    /\ last = Last0
    /\ setAt = [k \in {generate_key("ns", a) : a \in CapacityArgChoices} |-> -1]
    /\ w = W0
    /\ enc = Enc0
    /\ latest = <<>>
    /\ threads = [t \in ThreadIds |-> T0]

SpecRecency == InitRecency /\ [][NextCapacity]_vars

\* The expiry runs: the time of the latest set of every key is kept.
InitExpiry ==
    /\ config \in [ttl_seconds : 1..MaxTtl, max_size : 1..MaxSize,
                   use_redis : BOOLEAN]
    /\ redis_client \in (IF config.use_redis THEN {"client", "None"} ELSE {"None"})
    /\ in_memory_cache = <<>>
    /\ cache_timestamps = <<>>
    /\ redis = <<>>
    /\ clock = 0
    /\ last = Last0
    /\ setAt = [k \in {generate_key("ns", a) : a \in ArgChoices} |-> -1]
    /\ w = W0
    /\ enc = Enc0
    /\ latest = <<>>
    /\ threads = [t \in ThreadIds |-> T0]

NextExpiry ==
    \/ Calls(ArgChoices)
    \/ Tick

SpecExpiry == InitExpiry /\ [][NextExpiry]_vars

\* --------------------------------------------- the key encoder on its own
EncNames == {"a", "b", "id"}
EncValues == {PyInt(1), PyInt(2)}

\* Every keyword mapping of at most MaxArgs pairs with distinct names.
Mappings ==
    {s \in UNION {[1..n -> EncNames \X EncValues] : n \in 0..MaxArgs} :
        \A i, j \in 1..Len(s) : i # j => s[i][1] # s[j][1]}

InitKey ==
    /\ config = [ttl_seconds |-> 1, max_size |-> 1, use_redis |-> FALSE]
    /\ redis_client = "None"
    /\ in_memory_cache = <<>>
    /\ cache_timestamps = <<>>
    /\ redis = <<>>
    /\ clock = 0
    /\ last = Last0
    /\ setAt = <<>>
    /\ w = W0
    /\ enc \in {[Enc0 EXCEPT !.namespace = n, !.a1 = x, !.a2 = y] :
                   n \in Namespaces, x \in Mappings, y \in Mappings}
    /\ latest = <<>>
    /\ threads = [t \in ThreadIds |-> T0]

\* _generate_key applied to both mappings.
Encode ==
    /\ ~enc.done
    /\ enc' = [enc EXCEPT !.k1 = generate_key(enc.namespace, enc.a1),
                          !.k2 = generate_key(enc.namespace, enc.a2),
                          !.done = TRUE]
    /\ UNCHANGED <<config, redis_client, in_memory_cache, cache_timestamps,
                   redis, clock, last, setAt, w, latest, threads>>

NextKey == Encode

SpecKey == InitKey /\ [][NextKey]_vars

\* =================================================================== claims
\* The pairs of a mapping in name order, values as JSON: what the key hashes.
SortedPairsJson(kwargs) ==
    LET n == Len(kwargs)
        at(r) == CHOOSE i \in 1..n :
                    Cardinality({j \in 1..n :
                        NameRank(kwargs[j][1]) < NameRank(kwargs[i][1])}) = r - 1
    IN [r \in 1..n |-> <<kwargs[at(r)][1], json_dumps(kwargs[at(r)][2])>>]

Size == Cardinality(DOMAIN in_memory_cache)

\* A step that is a call of CacheManager.get, by what it leaves in `last`:
\* the other steps that leave a get there are Tick and the wrapper's later
\* steps.
\* A step in which time passes and no call is made.
TickStep == clock' # clock /\ last' = last

GetStep == last'.op = "get" /\ ~TickStep /\ w.pc = "idle"

\* A value as a get served by the remote tier returns it.
Decoded(value) == json_loads(json_dumps(value))

\* The step is a get of the key just set, called less than ttl_seconds after
\* that set returned, with the remote store absent, or healthy for both calls.
GetRightAfterSet ==
    /\ last.op = "set"
    /\ last.val # None
    /\ clock - last.at < ttl_ticks
    /\ last.remote # "error"
    /\ GetStep
    /\ last'.key = last.key
    /\ last'.remote # "error"

\* The same, the get also returning less than ttl_seconds after the set did:
\* line 105 reads the clock when the server has answered.
GetSoonAfterSet == GetRightAfterSet /\ clock' - last.at < ttl_ticks

\* C1 as stated: set(n, v, args) followed immediately by get(n, args) returns
\* v, for every value v other than None, on the local-tier path and on the
\* healthy remote-tier path.
C1_RoundTripEveryValue ==
    [][GetRightAfterSet => last'.ret = last.val]_vars

\* C1 amended: when the get also returns less than ttl_seconds after the set
\* did, it returns v on the local-tier path; on the healthy remote-tier path
\* it returns v as decoded from its JSON text, which is v itself for a string
\* and the list of its items for a tuple, as long as the server's entry lives
\* when the server handles GET, ttl_seconds from the time it handled SETEX;
\* after that, the entry of the Local Store being younger by the time the
\* answer to SETEX took, the Local Store answers with v itself.
C1_RoundTrip ==
    [][GetSoonAfterSet =>
         /\ last'.err = "none"
         /\ last'.tier = IF connected /\ clock < last.sent + ttl_ticks
                         THEN "remote" ELSE "local"
         /\ last'.ret = IF last'.tier = "remote"
                        THEN Decoded(last.val) ELSE last.val]_vars

\* A get answered by the remote tier at the time its key was set to a tuple:
\* it returned the list, while the Local Store holds the tuple.
C1_Witness ==
    /\ last.op = "get"
    /\ last.tier = "remote"
    /\ last.ret = PyList(1)
    /\ last.key \in DOMAIN in_memory_cache
    /\ in_memory_cache[last.key] = PyTuple(1)
    /\ TsGet(cache_timestamps, last.key) = last.at

\* C2: a get issued ttl_seconds or more after the latest set of its key
\* returns None; an age of exactly ttl_seconds is expired.
C2_Expiry ==
    (/\ last.op = "get"
     /\ last.key \in DOMAIN setAt
     /\ setAt[last.key] >= 0
     /\ last.sent >= setAt[last.key] + ttl_ticks)
    => last.ret = None

\* A get made exactly ttl_seconds after the set found the entry resident and
\* dropped it.
C2_Witness ==
    /\ last.op = "get"
    /\ last.key \in DOMAIN setAt
    /\ setAt[last.key] >= 0
    /\ last.sent = setAt[last.key] + ttl_ticks
    /\ last.removed = {last.key}
    /\ last.ret = None

\* C3: a set of a new key into a full store leaves max_size keys resident and
\* removes exactly one key, one whose insertion time was the earliest.
C3_OldestEvicted ==
    [][\A a \in CapacityArgChoices, v \in Values :
         (/\ set("ns", v, a, TRUE, 0)
          /\ Size = config.max_size
          /\ generate_key("ns", a) \notin DOMAIN in_memory_cache)
         => /\ Size' = config.max_size
            /\ \E e \in DOMAIN in_memory_cache :
                 /\ DOMAIN in_memory_cache' =
                       (DOMAIN in_memory_cache \ {e}) \cup {generate_key("ns", a)}
                 /\ \A k \in DOMAIN in_memory_cache :
                       TsGet(cache_timestamps, e) <= TsGet(cache_timestamps, k)
                 /\ \A k \in DOMAIN in_memory_cache \ {e} :
                       /\ in_memory_cache'[k] = in_memory_cache[k]
                       /\ TsGet(cache_timestamps', k) = TsGet(cache_timestamps, k)]_vars

\* A store of capacity 2 that overflowed: the older key went, a younger one
\* stayed next to the key just set.
C3_Witness ==
    /\ last.op = "set"
    /\ last.at = clock
    /\ config.max_size = 2
    /\ Cardinality(last.removed) = 1
    /\ last.key \notin last.removed
    /\ Size = 2
    /\ \E k \in DOMAIN in_memory_cache :
         k # last.key /\ TsGet(cache_timestamps, k) < clock

\* C4: the Local Store never holds more than max_size entries, and no call
\* of set takes more than one entry out of it.
C4_Bounded ==
    /\ Size <= config.max_size
    /\ last.op = "set" => Cardinality(last.removed) <= 1

\* A set that evicted, with a client connected.
C4_Witness ==
    /\ connected
    /\ last.op = "set"
    /\ Cardinality(last.removed) = 1
    /\ Size = config.max_size

\* The last call raised nothing and the Local Store alone answered it: set
\* has written the Local Store, delete has removed the local entry, and get
\* returned the resident value, unexpired when the call returned, else None
\* with the entry gone.
LocalAnswer ==
    /\ last.err = "none"
    /\ last.op = "set" =>
         /\ last.key \in DOMAIN in_memory_cache
         /\ in_memory_cache[last.key] = last.val
         /\ TsGet(cache_timestamps, last.key) = last.at
    /\ last.op = "delete" =>
         /\ last.key \notin DOMAIN in_memory_cache
         /\ last.key \notin TsKeys(cache_timestamps)
    /\ last.op = "get" =>
         /\ last.tier \in {"local", "miss"}
         /\ last.key \in DOMAIN in_memory_cache =>
              /\ last.ret = in_memory_cache[last.key]
              /\ last.at - TsGet(cache_timestamps, last.key) < ttl_ticks
              /\ last.tier = "local"
         /\ last.key \notin DOMAIN in_memory_cache =>
              /\ last.ret = None
              /\ last.tier = "miss"

\* What a manager without a client returns from get(key) at tick now.
LocalGet(key, now) ==
    IF local_hit(key, now) THEN in_memory_cache[key] ELSE None

\* C5 as stated: the get whose Redis command failed returns what a manager
\* without a client, called as the get was, returns.
C5_FailOpenAtCall ==
    [][/\ (~TickStep /\ last'.remote \in {"error", "none"}) => LocalAnswer'
       /\ (GetStep /\ last'.remote \in {"error", "none"}) =>
             last'.ret = LocalGet(last'.key, clock)]_vars

\* C5 amended: it returns what a manager without a client returns when called
\* at the time the failure of the Redis command came back, for line 105 reads
\* the clock then: an entry that reached ttl_seconds during the wait is
\* expired.
C5_FailOpen ==
    [][/\ (~TickStep /\ last'.remote \in {"error", "none"}) => LocalAnswer'
       /\ (GetStep /\ last'.remote \in {"error", "none"}) =>
             last'.ret = LocalGet(last'.key, clock')]_vars

\* A get whose Redis command failed a tick after it was sent, answered from
\* the Local Store while the server holds the key.
C5_Witness ==
    /\ last.op = "get"
    /\ last.remote = "error"
    /\ last.sent < last.at
    /\ last.tier = "local"
    /\ last.ret = PyTuple(1)
    /\ last.key \in DOMAIN redis

\* C6: the second of two calls of the wrapped form in sequence, with the
\* same arguments and less than ttl_seconds after the first call ran the
\* function and stored its result, does not run the function.
C6_RunsOnce == w.second => w.funcs = 0

\* C7: a wrapper call starts with cache_manager.get under its key; on a hit
\* it returns the cached value and runs neither the function nor set; on a
\* miss it runs the function once, then set once with the result under the
\* same key, then returns the result; nothing else happens in between.
C7_Protocol ==
    [][/\ (w.pc = "idle" /\ w'.pc # "idle") =>
            /\ w'.pc = "got"
            /\ last'.op = "get"
            /\ last'.key = w'.key
            /\ w'.cached_value = last'.ret
            /\ w'.funcs = 0 /\ w'.sets = 0 /\ ~w'.done
       /\ (w.pc = "got" /\ w.cached_value # None /\ w' # w) =>
            /\ w'.pc = "idle" /\ w'.done
            /\ w'.ret = w.cached_value
            /\ w'.funcs = 0 /\ w'.sets = 0
            /\ UNCHANGED <<in_memory_cache, cache_timestamps, redis, last>>
       /\ (w.pc = "got" /\ w.cached_value = None /\ w' # w) =>
            /\ w'.pc = "computed"
            /\ w'.funcs = 1 /\ w'.sets = 0 /\ ~w'.done
            /\ UNCHANGED <<in_memory_cache, cache_timestamps, redis, last>>
       /\ (w.pc = "computed" /\ w' # w) =>
            /\ w'.pc = "idle" /\ w'.done
            /\ w'.funcs = 1 /\ w'.sets = 1
            /\ last'.op = "set"
            /\ last'.key = w.key
            /\ last'.val = w.result
            /\ w'.ret = w.result
       /\ (w.pc # "idle" /\ w' = w) =>
            UNCHANGED <<in_memory_cache, cache_timestamps, last>>]_vars

\* A call that missed, ran the function and stored a result other than None.
C7_Witness ==
    /\ w.pc = "idle" /\ w.done
    /\ w.cached_value = None
    /\ w.funcs = 1 /\ w.sets = 1
    /\ w.ret = PyStr(1)
    /\ last.op = "set" /\ last.key = w.key /\ last.val = PyStr(1)

\* C8: two mappings with the same pairs get the same key, whatever their
\* insertion order, and the key is "cache", the namespace and a digest.
C8_KeyDeterminism ==
    enc.done =>
        /\ Pairs(enc.a1) = Pairs(enc.a2) => enc.k1 = enc.k2
        /\ enc.k1.prefix = "cache"
        /\ enc.k1.namespace = enc.namespace
        /\ enc.k1.digest = md5(<<enc.namespace,
                                 SortedPairsJson(enc.a1)>>)

\* Two mappings of two pairs in opposite orders, encoded to one key.
C8_Witness ==
    /\ enc.done
    /\ Len(enc.a1) = 2
    /\ enc.a2 = <<enc.a1[2], enc.a1[1]>>
    /\ enc.k1 = enc.k2

\* C9: with a client connected, a text the server returns is decoded and
\* returned with the Local Store untouched; otherwise the Local Store is
\* consulted: a resident unexpired value is returned, an expired entry is
\* dropped, and None is returned when neither tier has the key.
C9_LookupOrder ==
    [][GetStep =>
         LET key == last'.key
         IN IF /\ connected
               /\ last'.remote = "ok"
               /\ key \in DOMAIN redis
               /\ clock < redis[key].exp
            THEN /\ last'.ret = json_loads(redis[key].val)
                 /\ last'.tier = "remote"
                 /\ UNCHANGED <<in_memory_cache, cache_timestamps>>
            ELSE IF /\ key \in DOMAIN in_memory_cache
                    /\ clock' - TsGet(cache_timestamps, key) < ttl_ticks
            THEN /\ last'.ret = in_memory_cache[key]
                 /\ last'.tier = "local"
                 /\ UNCHANGED <<in_memory_cache, cache_timestamps>>
            ELSE /\ last'.ret = None
                 /\ last'.tier = "miss"
                 /\ in_memory_cache' = DictDel(in_memory_cache, key)
                 /\ cache_timestamps' = TsDel(cache_timestamps, key)]_vars

\* A remote hit returned while the Local Store holds another value for the key.
C9_Witness ==
    /\ last.op = "get"
    /\ last.tier = "remote"
    /\ last.key \in DOMAIN in_memory_cache
    /\ in_memory_cache[last.key] # last.ret
    /\ last.ret # None

\* C10: after set the Local Store holds the value under the key with the
\* time of the call as its timestamp, whatever the Redis command did; when
\* that command succeeded the server holds the value's JSON text under the
\* key until exactly ttl_seconds after it handled the command. (The time of
\* the call is the time line 146 reads, after the answer of the server.)
C10_BothTiers ==
    last.op = "set" =>
        /\ last.key \in DOMAIN in_memory_cache
        /\ in_memory_cache[last.key] = last.val
        /\ TsGet(cache_timestamps, last.key) = last.at
        /\ (last.remote = "ok" /\ clock < last.sent + ttl_ticks) =>
              /\ last.key \in DOMAIN redis
              /\ redis[last.key] = [val |-> json_dumps(last.val),
                                    exp |-> last.sent + ttl_ticks]
        /\ (last.remote = "ok" /\ clock >= last.sent + ttl_ticks) =>
              last.key \notin DOMAIN redis

\* A set whose Redis command succeeded, the answer coming a tick after the
\* server handled it, seen as it returns.
C10_Witness ==
    /\ last.op = "set"
    /\ last.remote = "ok"
    /\ last.val = PyTuple(1)
    /\ last.sent < last.at
    /\ last.at = clock
    /\ last.key \in DOMAIN redis
    /\ redis[last.key].exp = last.sent + ttl_ticks

\* A step that is a call of CacheManager.delete, of CacheManager.clear.
DeleteStep == last'.op = "delete" /\ ~TickStep /\ w.pc = "idle"
ClearStep == last'.op = "clear" /\ clock' = clock /\ w.pc = "idle"

\* C11: when delete returns with no client connected or with its Redis
\* command done, the key is resident in neither tier and every entry under
\* another key is as it was in both tiers; a get of the key that follows
\* returns None.
C11_DeleteBothTiers ==
    [][/\ (DeleteStep /\ last'.remote # "error") =>
            LET key == last'.key
            IN /\ last'.err = "none"
               /\ key \notin DOMAIN in_memory_cache'
               /\ key \notin TsKeys(cache_timestamps')
               /\ key \notin DOMAIN redis'
               /\ DOMAIN in_memory_cache' = DOMAIN in_memory_cache \ {key}
               /\ TsKeys(cache_timestamps') = TsKeys(cache_timestamps) \ {key}
               /\ redis' = redis_at(DictDel(redis, key), clock')
               /\ \A k \in DOMAIN in_memory_cache' :
                     /\ in_memory_cache'[k] = in_memory_cache[k]
                     /\ TsGet(cache_timestamps', k) = TsGet(cache_timestamps, k)
       /\ (/\ last.op = "delete"
           /\ last.remote # "error"
           /\ GetStep
           /\ last'.key = last.key) => last'.ret = None]_vars

\* A delete on a connected manager that took the key out of both tiers and
\* left the other key in both.
C11_Witness ==
    /\ last.op = "delete"
    /\ last.remote = "ok"
    /\ last.removed = {last.key}
    /\ last.key \notin DOMAIN redis
    /\ \E k \in DOMAIN in_memory_cache : k \in DOMAIN redis

\* C12: clear empties the Local Store, issues no Redis command and leaves
\* every entry of the server as it was; a get that follows, for a key the
\* healthy server still holds, returns that key's value.
C12_ClearLocalOnly ==
    [][/\ ClearStep =>
            /\ in_memory_cache' = <<>>
            /\ cache_timestamps' = <<>>
            /\ last'.remote = "none"
            /\ last'.err = "none"
            /\ redis' = redis
       /\ (/\ last.op = "clear"
           /\ GetStep
           /\ last'.remote = "ok"
           /\ last'.key \in DOMAIN redis
           /\ clock < redis[last'.key].exp) =>
            /\ last'.ret = json_loads(redis[last'.key].val)
            /\ last'.tier = "remote"]_vars

\* A clear that emptied a Local Store of two entries while the server, with
\* its client connected, still holds a key.
C12_Witness ==
    /\ last.op = "clear"
    /\ Cardinality(last.removed) = 2
    /\ in_memory_cache = <<>>
    /\ cache_timestamps = <<>>
    /\ connected
    /\ redis # <<>>

\* C13: redis_client is what construction made of it (no client without
\* use_redis) and no call changes it, a failing Redis command included; every
\* get_stats reports redis_connected accordingly; and on a connected manager
\* the call after a failed Redis command issues its Redis command again.
C13_ConnectionFixed ==
    [][/\ redis_client' = redis_client
       /\ ~config.use_redis => redis_client = "None"
       /\ (last'.op = "stats" /\ clock' = clock) =>
            last'.ret.redis_connected = (redis_client = "client")
       /\ (/\ connected
           /\ last.remote = "error"
           /\ last'.op \in {"get", "set", "delete"}
           /\ ~TickStep) => last'.remote \in {"ok", "error"}]_vars

\* get_stats on a connected manager at time 0 whose Local Store holds a key
\* the server does not: a Redis command failed before, and the client stayed.
C13_Witness ==
    /\ last.op = "stats"
    /\ last.ret.redis_connected
    /\ last.ret.in_memory_size = 1
    /\ clock = 0
    /\ config.use_redis
    /\ \E k \in DOMAIN in_memory_cache : k \notin DOMAIN redis

\* C14: no manager whose ttl_seconds or max_size is not positive gets as far
\* as a call of get or set: its construction fails with a configuration
\* error.
C14_ConfigValidated ==
    last.op \in {"get", "set"} =>
        /\ config.ttl_seconds > 0
        /\ config.max_size > 0

\* C15: a call of get, set or delete with a keyword value that json cannot
\* serialise raises KeyEncodingError and leaves both tiers as they were.
C15_KeyEncodingError ==
    [][(/\ last'.op \in {"get", "set", "delete"}
        /\ ~TickStep
        /\ last'.key = generate_key("ns", <<<<"id", PyObject(20)>>>>)) =>
         /\ last'.err = "KeyEncodingError"
         /\ UNCHANGED <<in_memory_cache, cache_timestamps, redis>>]_vars

\* C17: under a decorator given ttl = X, the call that follows a call with
\* the same arguments which ran the function and stored a result other than
\* None, with no Redis command failing, is served from the cache when less
\* than X seconds have passed since, and runs the function again otherwise.
C17_TtlOverride ==
    [][(/\ w.pc = "idle" /\ w.done /\ w.funcs = 1
        /\ w.result # None
        /\ w.ttl # None
        /\ last.op = "set" /\ last.remote # "error"
        /\ w'.pc = "got"
        /\ w'.key = w.key
        /\ w'.ttl = w.ttl
        /\ last'.remote # "error") =>
         (is_hit(w'.cached_value) <=>
             \/ connected /\ clock < last.sent + w.ttl.v * TicksPerSecond
             \/ clock' - last.at < w.ttl.v * TicksPerSecond)]_vars

\* C18 as stated: get returns None or the value of the most recent set of its
\* key that no delete has followed (as stored, or as decoded from its JSON
\* text), whichever Redis commands failed.
C18_NoStaleRead ==
    (last.op = "get" /\ last.key \in DOMAIN latest) =>
        last.ret \in {None, latest[last.key].val, Decoded(latest[last.key].val)}

\* C18 amended: get returns None or a value once set under its key; this is
\* the value of the most recent set that no delete has followed unless the
\* Redis command of the most recent set or delete of the key failed.
C18_ReadsSetValues ==
    (last.op = "get" /\ last.key \in DOMAIN latest) =>
        LET h == latest[last.key]
        IN /\ last.ret \in {None} \cup h.ever \cup {Decoded(v) : v \in h.ever}
           /\ ~h.dirty => last.ret \in {None, h.val, Decoded(h.val)}

\* A get served by the remote tier the value of the latest set, after both
\* values were set under the key.
C18_Witness ==
    /\ last.op = "get"
    /\ last.key \in DOMAIN latest
    /\ latest[last.key].ever = BothValues
    /\ ~latest[last.key].dirty
    /\ last.tier = "remote"
    /\ last.ret = Decoded(latest[last.key].val)

\* C20 as stated: a get whose Redis command fails, made less than ttl_seconds after
\* the latest set of its key, when that set's Redis command succeeded and no
\* delete, clear or eviction has taken the key out of the Local Store since,
\* returns the value set, from the Local Store.
C20_ShadowCacheAtCall ==
    [][(/\ GetStep
        /\ last'.remote = "error"
        /\ last'.key \in DOMAIN latest
        /\ latest[last'.key].val # None
        /\ ~latest[last'.key].dirty
        /\ latest[last'.key].kept
        /\ clock - setAt[last'.key] < ttl_ticks) =>
         /\ last'.err = "none"
         /\ last'.tier = "local"
         /\ last'.ret = latest[last'.key].val]_vars

\* C20 amended: the get returns the value set when the failure of its Redis
\* command comes back less than ttl_seconds after that set wrote its
\* timestamp; the time the failing command takes counts in the entry's age.
C20_ShadowCache ==
    [][(/\ GetStep
        /\ last'.remote = "error"
        /\ last'.key \in DOMAIN latest
        /\ latest[last'.key].val # None
        /\ ~latest[last'.key].dirty
        /\ latest[last'.key].kept
        /\ clock' - setAt[last'.key] < ttl_ticks) =>
         /\ last'.err = "none"
         /\ last'.tier = "local"
         /\ last'.ret = latest[last'.key].val]_vars

\* A get that failed on the server and returned the tuple set there and in
\* the Local Store, while the other key is resident too.
C20_Witness ==
    /\ last.op = "get"
    /\ last.remote = "error"
    /\ last.sent < last.at
    /\ last.key \in DOMAIN latest
    /\ ~latest[last.key].dirty
    /\ latest[last.key].kept
    /\ last.ret = PyTuple(1)
    /\ last.key \in DOMAIN redis
    /\ redis[last.key].val = json_dumps(PyTuple(1))
    /\ Cardinality(DOMAIN in_memory_cache) = 2

\* C16: with threads calling set concurrently, the Local Store never holds
\* more than max_size entries, and no two threads are evicting at once.
C16_BoundedUnderThreads ==
    /\ Size <= config.max_size
    /\ ~\E t1, t2 \in ThreadIds :
         /\ t1 # t2
         /\ threads[t1].pc \in {"set_141", "set_142", "set_143"}
         /\ threads[t2].pc \in {"set_141", "set_142", "set_143"}

\* C19: with threads calling get, set, delete and clear concurrently, no call
\* raises, and no get finds a value without its timestamp.
C19_CriticalSections ==
    \A t \in ThreadIds :
        /\ threads[t].err = "none"
        /\ threads[t].pc = "get_105" => threads[t].timestamp # None

\* C21: a get that reaches the Local Store and finds its key resident with
\* an age of ttl_seconds or more returns None and removes that entry, value
\* and timestamp, and nothing else; the passing of time removes nothing from
\* the Local Store, so an expired entry that is not read stays resident.
C21_LazyExpiry ==
    [][/\ (/\ GetStep
           /\ ~(connected /\ last'.remote = "ok" /\ redis_has(last'.key))
           /\ last'.key \in DOMAIN in_memory_cache
           /\ clock' - TsGet(cache_timestamps, last'.key) >= ttl_ticks) =>
            /\ last'.ret = None
            /\ last'.err = "none"
            /\ in_memory_cache' = DictDel(in_memory_cache, last'.key)
            /\ cache_timestamps' = TsDel(cache_timestamps, last'.key)
            /\ Cardinality(DOMAIN in_memory_cache') = Size - 1
       /\ TickStep => UNCHANGED <<in_memory_cache, cache_timestamps>>]_vars

\* A get that dropped its expired entry and left the other entry, as old,
\* resident.
C21_Witness ==
    /\ last.op = "get"
    /\ last.at = clock
    /\ last.removed = {last.key}
    /\ last.ret = None
    /\ \E k \in DOMAIN in_memory_cache :
         clock - TsGet(cache_timestamps, k) >= ttl_ticks

\* C25: on a manager without a client (use_redis off, or the probe failed)
\* no call issues a Redis command or makes a client: redis_client stays
\* None, the server's keyspace is not touched, and the calls work on the
\* Local Store alone.
C25_NoRetry ==
    [][redis_client = "None" =>
         /\ redis_client' = "None"
         /\ redis' = redis
         /\ last'.remote = "none"
         /\ last'.op = "get" => last'.tier \in {"local", "miss"}]_vars

\* A manager configured for Redis whose probe failed, after a set and a get
\* served from the Local Store.
C25_Witness ==
    /\ config.use_redis
    /\ redis_client = "None"
    /\ last.op = "get"
    /\ last.tier = "local"
    /\ last.remote = "none"
    /\ redis = <<>>

\* C29: get writes nothing to the server and adds or overwrites nothing in
\* the Local Store: it leaves it as it was or without the expired entry of
\* its own key; get_stats changes nothing and reports the number of resident
\* entries, max_size and ttl_seconds.
C29_ReadsAddNothing ==
    [][/\ GetStep =>
            /\ redis' = redis_at(redis, clock')
            /\ \/ UNCHANGED <<in_memory_cache, cache_timestamps>>
               \/ /\ last'.key \in DOMAIN in_memory_cache
                  /\ clock' - TsGet(cache_timestamps, last'.key) >= ttl_ticks
                  /\ in_memory_cache' = DictDel(in_memory_cache, last'.key)
                  /\ cache_timestamps' = TsDel(cache_timestamps, last'.key)
       /\ (last'.op = "stats" /\ clock' = clock) =>
            /\ UNCHANGED <<config, redis_client, in_memory_cache,
                           cache_timestamps, redis>>
            /\ last'.ret.in_memory_size = Size
            /\ last'.ret.in_memory_max = config.max_size
            /\ last'.ret.ttl_seconds = config.ttl_seconds]_vars

\* A get served by the remote tier for a key the Local Store does not hold.
C29_Witness ==
    /\ last.op = "get"
    /\ last.tier = "remote"
    /\ last.ret # None
    /\ last.key \notin DOMAIN in_memory_cache

\* C30: in the sequential runs the keys of in_memory_cache are the keys of
\* cache_timestamps, each with one timestamp.
C30_PairedMaps ==
    /\ DOMAIN in_memory_cache = TsKeys(cache_timestamps)
    /\ Len(cache_timestamps) = Cardinality(TsKeys(cache_timestamps))

\* A set into a full store that evicted another key's entry.
C30_Witness ==
    /\ last.op = "set"
    /\ last.removed # {}
    /\ last.key \notin last.removed
    /\ Size = config.max_size
    /\ DOMAIN in_memory_cache = TsKeys(cache_timestamps)

\* A step of set, outside the decorator.
SetStep == last'.op = "set" /\ ~TickStep /\ w.pc = "idle"

\* The age of a resident key's entry.
Age(k) == clock - TsGet(cache_timestamps, k)

\* C22: the timestamp of a resident key is the time of the most recent set
\* of that key; a set into a full store takes out an entry whose timestamp is
\* the smallest; get changes no resident key's timestamp, and a get of a key
\* that is absent or unexpired leaves both dicts, order included, as they
\* were, so that runs differing only in such gets evict the same keys in the
\* same order.
C22_WriteRecency ==
    [][/\ \A k \in DOMAIN in_memory_cache' :
            TsGet(cache_timestamps', k) = setAt'[k]
       /\ (SetStep /\ Size >= config.max_size) =>
            \E e \in DOMAIN in_memory_cache :
               /\ \A k \in DOMAIN in_memory_cache : setAt[e] <= setAt[k]
               /\ DOMAIN in_memory_cache' =
                     (DOMAIN in_memory_cache \ {e}) \cup {last'.key}
       /\ GetStep =>
            /\ \A k \in DOMAIN in_memory_cache' :
                  TsGet(cache_timestamps', k) = TsGet(cache_timestamps, k)
            /\ (last'.key \in DOMAIN in_memory_cache => Age(last'.key) < ttl_ticks)
                 => UNCHANGED <<in_memory_cache, cache_timestamps>>]_vars

\* A get hit of the oldest of two resident keys, set at different times.
C22_Witness ==
    /\ last.op = "get"
    /\ last.tier = "local"
    /\ Size = 2
    /\ \A k \in DOMAIN in_memory_cache \ {last.key} :
         TsGet(cache_timestamps, last.key) < TsGet(cache_timestamps, k)

\* C23: a set into a store that holds max_size entries leaves max_size
\* entries, and when its key is resident it takes no other key out.
C23_FullStaysFull ==
    [][(SetStep /\ Size = config.max_size) =>
         /\ Size' = config.max_size
         /\ last'.key \in DOMAIN in_memory_cache =>
               DOMAIN in_memory_cache' = DOMAIN in_memory_cache]_vars

\* C28: a set takes no entry younger than ttl_seconds out of the Local Store
\* while an entry of age ttl_seconds or more is resident.
C28_ExpiredFirst ==
    [][SetStep =>
         \A e \in DOMAIN in_memory_cache \ DOMAIN in_memory_cache' :
            (\E k \in DOMAIN in_memory_cache : Age(k) >= ttl_ticks)
               => Age(e) >= ttl_ticks]_vars

\* A set that took an expired entry out and left an unexpired one resident
\* beside its own.
C28_Witness ==
    /\ last.op = "set"
    /\ last.at = clock
    /\ \E e \in last.removed : clock - setAt[e] >= ttl_ticks
    /\ \E k \in DOMAIN in_memory_cache \ {last.key} : Age(k) < ttl_ticks

\* C24: once ttl_seconds have passed since the most recent set of a key,
\* whether or not its Redis command or an earlier one failed, neither tier
\* answers for the key: the server holds no live text and the Local Store
\* no unexpired entry, so a get returns None from either.
C24_TiersConverge ==
    \A k \in DOMAIN setAt :
       (setAt[k] >= 0 /\ clock >= setAt[k] + ttl_ticks) =>
          /\ ~redis_has(k)
          /\ ~local_hit(k, clock)

\* ttl_seconds after a set whose Redis command failed: the entry is still
\* resident, expired, and the server has nothing under the key.
C24_Witness ==
    /\ connected
    /\ last.op = "set"
    /\ last.remote = "error"
    /\ clock >= last.at + ttl_ticks
    /\ setAt[last.key] = last.at
    /\ last.key \in DOMAIN in_memory_cache
    /\ last.key \notin DOMAIN redis

\* A step in which the wrapped function raises.
RaiseStep == w.pc = "got" /\ w'.pc = "idle" /\ w'.raised

\* The get of the wrapper call that follows a call with the same arguments
\* in which the function raised.
CallAgainStep == w.pc = "idle" /\ w'.pc = "got" /\ w'.again

\* The wrapped function raised: the call ends without a return value and
\* without a call of set, and the dicts and the server are as get left them.
NothingCached ==
    RaiseStep =>
       /\ ~w'.done
       /\ w'.sets = 0
       /\ w'.funcs = 1
       /\ UNCHANGED <<in_memory_cache, cache_timestamps, redis>>

\* C27: when the wrapped function raises on a miss the exception leaves the
\* wrapper, set is not called, both tiers stay as they were after the get,
\* and the next call with the same arguments misses and runs the function
\* again.
C27_NotCached ==
    [][/\ NothingCached
       /\ CallAgainStep => ~is_hit(w'.cached_value)]_vars

\* C27, amended: as above, but the next call is sure to run the function
\* again only on a manager without a client; with a client it returns a
\* cached value when a tier answers its get that did not answer the get of
\* the call that raised.
C27_NotCachedSameTier ==
    [][/\ NothingCached
       /\ (CallAgainStep /\ ~connected) => ~is_hit(w'.cached_value)
       /\ (CallAgainStep /\ is_hit(w'.cached_value)) =>
             /\ last.op = "get"
             /\ last.key = last'.key
             /\ last'.tier \in {"remote", "local"}
             /\ last'.tier # last.tier]_vars

\* The call after one that raised ran the function again and stored its
\* result.
C27_Witness ==
    /\ w.again
    /\ w.done
    /\ w.funcs = 1
    /\ w.sets = 1
    /\ w.ret = PyStr(1)
    /\ w.key \in DOMAIN in_memory_cache

\* C26: two tasks that call the wrapped coroutine function with the same
\* arguments, the second starting while the first awaits the function, do
\* not both run the function: at no time do two tasks await it under one key.
C26_SingleComputation ==
    \A t1, t2 \in ThreadIds :
       (/\ t1 # t2
        /\ threads[t1].pc = "await_213"
        /\ threads[t2].pc = "await_213")
       => threads[t1].key # threads[t2].key

====
